---- MODULE Spec2Model ----
(***************************************************************************)
(* Model of the Passports augmentation scripts:                            *)
(*   create_skewed_dataset.py, create_combined_skewed_dataset.py (skew)    *)
(*   create_lighting_effects.py (glare, shadow, uneven lighting)           *)
(*                                                                         *)
(* Numbers.  The scripts compute in floating point.  The model computes    *)
(* in exact or fixed-point integer arithmetic:                             *)
(*   - a skew factor f is the integer FDen*f, coordinates of destination   *)
(*     corners are integers in units of 1/FDen pixel (exact rationals);    *)
(*   - an intensity is an integer number of hundredths;                    *)
(*   - a working pixel value, a mask value and a gain are integers in      *)
(*     units of 1/Q (Q = 1000), truncated after every operation.           *)
(* Float rounding error itself is not modelled.                            *)
(***************************************************************************)
EXTENDS Integers, Sequences, FiniteSets, TLC

VARIABLES script, call, ret, aux, rng, draws, threads, batch

vars == <<script, call, ret, aux, rng, draws, threads, batch>>

(***************************************************************************)
(* Bounds of the model.                                                    *)
(***************************************************************************)
MaxDim == 3
MaxDraws == 2
MaxCount == 2
MaxFiles == 2

(* denominators of the fixed-point representations *)
FDen == 100
Q == 1000

Abs(n) == IF n < 0 THEN -n ELSE n
Min(a, b) == IF a < b THEN a ELSE b
Max(a, b) == IF a < b THEN b ELSE a

(* Python int() of the non-negative or negative rational n/d, d > 0:      *)
(* truncation toward zero.                                                 *)
PyInt(n, d) == IF n >= 0 THEN n \div d ELSE -((-n) \div d)

(* floor of n/d, d > 0 *)
Floor(n, d) == n \div d

(* round-to-nearest of the non-negative rational n/d (ties upward) *)
RoundNearest(n, d) == (2 * n + d) \div (2 * d)

(***************************************************************************)
(* Images: numpy arrays of shape (height, width, 3), dtype uint8.          *)
(***************************************************************************)
Pixels(h, w) == (0 .. h - 1) \X (0 .. w - 1)

Patterns == {"black", "gray", "ramp"}

PatternPixel(p, y, x) ==
    IF p = "black" THEN <<0, 0, 0>>
    ELSE IF p = "gray" THEN <<200, 200, 200>>
    ELSE <<(40 * x + 90 * y) % 256, (255 - 60 * x) % 256, (17 + 100 * y) % 256>>

MkImage(h, w, p) ==
    [height |-> h, width |-> w,
     px |-> [y \in 0 .. h - 1 |-> [x \in 0 .. w - 1 |-> PatternPixel(p, y, x)]]]

SmallImages == {MkImage(h, w, p) : h \in 0 .. MaxDim, w \in 0 .. MaxDim, p \in {"ramp"}}
                 \cup {MkImage(MaxDim, MaxDim, "black")}

(* images that only the skew functions are applied to: the shape decides *)
SkewImages == {MkImage(h, w, "black") : h \in 0 .. MaxDim, w \in 0 .. MaxDim}
                 \cup {MkImage(100, 100, "black")}

NoArgs == [h_skew_factor |-> 0, v_skew_factor |-> 0, effect_type |-> "",
           lighting_type |-> "", glare_intensity |-> 0, shadow_intensity |-> 0,
           lighting_intensity |-> 0, num_glares |-> 0, num_shadows |-> 0]

(* images the lighting effects are applied to *)
MidImage == MkImage(20, 24, "ramp")
Black50 == MkImage(50, 50, "black")
Gray100 == MkImage(100, 100, "gray")

LightImages == SmallImages \cup {MidImage}
GlareImages == LightImages \cup {Black50}
ShadowImages == SmallImages \cup {MkImage(6, 8, "ramp")}
ApplyImages == {MkImage(0, MaxDim, "ramp"), MkImage(MaxDim, 0, "ramp"), MkImage(1, 1, "ramp"),
                MkImage(2, MaxDim, "ramp"), MkImage(MaxDim, MaxDim, "black"),
                MkImage(6, 8, "ramp")}
VignetteImages == LightImages \cup {Gray100}

(* intensities, in hundredths *)
GlareIntensities == {0, 70, 150}
LightingIntensities == {0, 50, 100}
LightingTypes == <<"gradient", "spotlight", "vignette">>
ShadowIntensities == {0, 40, 100}

(* effect types passed to apply_lighting_effects: the five of the command *)
(* line and one that is none of them                                       *)
EffectTypes == {"glare", "shadow", "uneven_light", "combined", "all", "sepia"}

(* the default intensities with one glare and one shadow, and full         *)
(* intensities with MaxCount of each                                       *)
ApplyArgs ==
    {[NoArgs EXCEPT !.glare_intensity = 60, !.shadow_intensity = 40,
                    !.lighting_intensity = 50, !.num_glares = 1, !.num_shadows = 1],
     [NoArgs EXCEPT !.glare_intensity = 100, !.shadow_intensity = 100,
                    !.lighting_intensity = 100, !.num_glares = MaxCount,
                    !.num_shadows = MaxCount]}

(* seeds of the random generator *)
Seeds == {2, 11, 16, 4680}

(* skew factors, in units of 1/FDen *)
Factors == {-30, -15, 0, 15, 20, 30}

Scripts == {"create_skewed_dataset", "create_combined_skewed_dataset",
            "create_lighting_effects"}

(* the array objects of a call: the one the caller passed and those        *)
(* allocated during the call                                               *)
CallerArray == "image"
NewArray == "new"

(* the locals of a call, and what the call left behind: the content of the *)
(* caller's array after the call and, for every returned image, the array  *)
(* object it is                                                            *)
NoAux == [src_points |-> <<>>, dst_points |-> <<>>, dsize |-> <<>>,
          spots |-> <<>>, gradient |-> <<>>, fired |-> <<>>,
          image_after |-> <<>>, owners |-> <<>>]

NoImage == MkImage(0, 0, "black")

(* a call: the function, its arguments and the state of the generator at   *)
(* its entry                                                               *)
NoCall == [op |-> "none", image |-> NoImage, args |-> NoArgs, rng |-> 0]

NoRet == [status |-> "none", err |-> "", kind |-> "none", value |-> <<>>]

Returned(kind, value) == [status |-> "returned", err |-> "", kind |-> kind, value |-> value]
Raised(err) == [status |-> "raised", err |-> err, kind |-> "none", value |-> <<>>]

(***************************************************************************)
(* Skew transform (create_combined_skewed_dataset.py and, for the two      *)
(* single-axis functions, the textually identical create_skewed_dataset.py)*)
(***************************************************************************)
(* src_points: top-left, top-right, bottom-left, bottom-right, in 1/FDen *)
SrcPoints(w, h) ==
    << <<0, 0>>, <<FDen * w, 0>>, <<0, FDen * h>>, <<FDen * w, FDen * h>> >>

(* mutant: the bottom edge shifted by a fraction of the width *)
HorizontalDst_ByWidth(w, h, f) ==
    << <<0, 0>>, <<FDen * w, 0>>, <<f * w, FDen * h>>, <<FDen * w + f * w, FDen * h>> >>

HorizontalDst(w, h, f) ==
    << <<0, 0>>, <<FDen * w, 0>>, <<f * h, FDen * h>>, <<FDen * w + f * h, FDen * h>> >>

(* mutant: the canvas width rounded to nearest instead of truncated *)
HorizontalDsize_Rounded(w, h, f) == <<RoundNearest(FDen * w + Abs(f * h), FDen), h>>

HorizontalDsize(w, h, f) == <<PyInt(FDen * w + Abs(f * h), FDen), h>>

VerticalDst(w, h, f) ==
    << <<0, 0>>, <<FDen * w + f * w, 0>>, <<0, FDen * h>>, <<FDen * w, FDen * h>> >>

(* mutant: dsize given as (rows, columns) *)
VerticalDsize_Swapped(w, h, f) == <<h, PyInt(FDen * w + Abs(f * w), FDen)>>

VerticalDsize(w, h, f) == <<PyInt(FDen * w + Abs(f * w), FDen), h>>

(* mutant: both displacements applied to x, none to y *)
CombinedDst_XOnly(w, h, hf, vf) ==
    << <<vf * 0, 0>>,
       <<FDen * w + hf * w, 0>>,
       <<vf * h, FDen * h>>,
       <<FDen * w + vf * h + hf * w, FDen * h>> >>

CombinedDst(w, h, hf, vf) ==
    << <<vf * 0, 0>>,
       <<FDen * w + vf * 0, hf * w>>,
       <<vf * h, FDen * h>>,
       <<FDen * w + vf * h, FDen * h + hf * w>> >>

(* mutant: the signed displacements instead of their magnitudes *)
CombinedDsize_Signed(w, h, hf, vf) ==
    <<PyInt(FDen * w + vf * h + hf * w, FDen),
      PyInt(FDen * h + hf * w, FDen)>>

CombinedDsize(w, h, hf, vf) ==
    <<PyInt(FDen * w + Abs(vf * h) + Abs(hf * w), FDen),
      PyInt(FDen * h + Abs(hf * w), FDen)>>

(* cv2.warpPerspective(image, matrix, dsize): OpenCV rejects an empty      *)
(* source array; otherwise a new array of shape dsize is returned, whose   *)
(* pixel values (the resampling) are not modelled.                         *)
WarpPerspective(img, dsize) ==
    IF img.height = 0 \/ img.width = 0
    THEN Raised("cv2.error")
    ELSE Returned("warped", <<>>)

SkewCall(name, img, hf, vf, dst, dsize) ==
    /\ call.op = "none"
    /\ call' = [op |-> name, image |-> img,
                args |-> [NoArgs EXCEPT !.h_skew_factor = hf, !.v_skew_factor = vf],
                rng |-> rng]
    /\ aux' = [NoAux EXCEPT !.src_points = SrcPoints(img.width, img.height),
                            !.dst_points = dst, !.dsize = dsize,
                            !.image_after = <<img>>,
                            !.owners = IF WarpPerspective(img, dsize).status = "returned"
                                       THEN <<NewArray>> ELSE <<>>]
    /\ ret' = WarpPerspective(img, dsize)
    /\ UNCHANGED <<script, rng, draws, threads, batch>>

apply_horizontal_skew(img, f) ==
    /\ script \in {"create_skewed_dataset", "create_combined_skewed_dataset"}
    /\ SkewCall("apply_horizontal_skew", img, f, 0,
                HorizontalDst(img.width, img.height, f),
                HorizontalDsize(img.width, img.height, f))

apply_vertical_skew(img, f) ==
    /\ script \in {"create_skewed_dataset", "create_combined_skewed_dataset"}
    /\ SkewCall("apply_vertical_skew", img, 0, f,
                VerticalDst(img.width, img.height, f),
                VerticalDsize(img.width, img.height, f))

apply_combined_skew(img, hf, vf) ==
    /\ script = "create_combined_skewed_dataset"
    /\ SkewCall("apply_combined_skew", img, hf, vf,
                CombinedDst(img.width, img.height, hf, vf),
                CombinedDsize(img.width, img.height, hf, vf))

(***************************************************************************)
(* Lighting effects (create_lighting_effects.py)                           *)
(***************************************************************************)
(* An array is a value: it is evaluated once, when it is built. *)
Array(f) == IF f = f THEN f ELSE f

Clip(v, lo, hi) == IF v < lo THEN lo ELSE IF v > hi THEN hi ELSE v

(* int(n * p/100) for n >= 0 *)
PctInt(n, p) == (n * p) \div 100

RECURSIVE SqrtSearch(_, _, _)
SqrtSearch(n, lo, hi) ==
    IF lo >= hi THEN lo
    ELSE LET mid == (lo + hi + 1) \div 2
         IN IF mid * mid <= n THEN SqrtSearch(n, mid, hi) ELSE SqrtSearch(n, lo, mid - 1)

(* floor of the square root *)
ISqrt(n) == SqrtSearch(n, 0, Min(n, 46340))

(* np.sqrt(n) for an integer n >= 0, in units of 1/Q *)
SqrtQ(n) == ISqrt(n * Q * Q)

RECURSIVE ExpSeries(_, _, _, _)
ExpSeries(t, k, term, acc) ==
    IF term = 0 THEN acc
    ELSE ExpSeries(t, k + 1, (term * t) \div (Q * k), acc + term)

(* np.exp(-t) for t >= 0 in units of 1/Q, in units of 1/Q *)
ExpNegQ(t) == (Q * Q) \div ExpSeries(t, 1, Q, 0)

(* The module-level generator of Python's random: a deterministic          *)
(* function of its state, advanced by every draw.  A 16-bit linear         *)
(* congruential generator stands for the Mersenne Twister.                 *)
RngNext(s) == (25173 * s + 13849) % 65536

RECURSIVE RngAt(_, _)
(* the state of the generator after k draws from state s *)
RngAt(s, k) == IF k = 0 THEN s ELSE RngAt(RngNext(s), k - 1)

(* the value of the k-th draw from state s, below n *)
RandBelow(s, k, n) == (RngAt(s, k) \div 16) % n

(* random.randint(a, b) as the k-th draw from state s *)
RandInt(s, k, a, b) == a + RandBelow(s, k, b - a + 1)

(* random.choice(seq) as the k-th draw from state s *)
Choice(s, k, seq) == seq[1 + RandBelow(s, k, Len(seq))]

(* random.random() as the k-th draw from state s, in units of 1/Q *)
RandomQ(s, k) == ((RngAt(s, k) \div 16) * Q) \div 4096

(* a float32 NaN in a working buffer *)
NaN == 0 - 1

(* the values the cast of NaN to uint8 may produce *)
NanCast == {0, 255}

(* image.copy().astype(np.float32), in units of 1/Q *)
AsFloat(img) ==
    Array([y \in 0 .. img.height - 1 |-> [x \in 0 .. img.width - 1 |->
              <<Q * img.px[y][x][1], Q * img.px[y][x][2], Q * img.px[y][x][3]>>]])

(* v.astype(np.uint8) for v in [0, 255]: truncation; undefined for NaN *)
CastUint8(v, nanv) == IF v = NaN THEN nanv ELSE v \div Q

AsUint8(buf, h, w, nanv) ==
    [height |-> h, width |-> w,
     px |-> Array([y \in 0 .. h - 1 |-> [x \in 0 .. w - 1 |->
                     <<CastUint8(buf[y][x][1], nanv), CastUint8(buf[y][x][2], nanv),
                       CastUint8(buf[y][x][3], nanv)>>]])]

(* np.clip(buf, 0, 255).astype(np.uint8) *)
ClipUint8(buf, h, w) ==
    [height |-> h, width |-> w,
     px |-> Array([y \in 0 .. h - 1 |-> [x \in 0 .. w - 1 |->
                     <<Clip(buf[y][x][1], 0, 255 * Q) \div Q, Clip(buf[y][x][2], 0, 255 * Q) \div Q,
                       Clip(buf[y][x][3], 0, 255 * Q) \div Q>>]])]

Dist2(y, x, cx, cy) == (x - cx) * (x - cx) + (y - cy) * (y - cy)

(* ---- add_glare_effect ---- *)
(* the three draws of one glare, after k draws from state s *)
GlareSpot(w, h, s, k) ==
    [center_x |-> RandInt(s, k + 1, PctInt(w, 20), PctInt(w, 80)),
     center_y |-> RandInt(s, k + 2, PctInt(h, 20), PctInt(h, 80)),
     radius |-> RandInt(s, k + 3, PctInt(Min(w, h), 5), PctInt(Min(w, h), 15))]

(* gradient = np.clip(np.exp(-distance / (radius * 0.5)), 0, 1) at squared *)
(* distance d2; radius 0 divides by zero: 0/0 is NaN, d/0 is inf           *)
GlareGradient(d2, radius) ==
    IF radius = 0
    THEN IF d2 = 0 THEN NaN ELSE 0
    ELSE Clip(ExpNegQ((2 * SqrtQ(d2)) \div radius), 0, Q)

(* mutant: the mask added at full strength, not scaled by the intensity *)
GlareAdd_FullStrength(v, intensity, gradient) ==
    IF v = NaN \/ gradient = NaN THEN NaN
    ELSE Clip(v + gradient * 255, 0, 255 * Q)

(* np.clip(v + intensity * gradient * 255, 0, 255); NaN propagates *)
GlareAdd(v, intensity, gradient) ==
    IF v = NaN \/ gradient = NaN THEN NaN
    ELSE Clip(v + (intensity * gradient * 255) \div 100, 0, 255 * Q)

GlareStep(buf, w, h, intensity, spot) ==
    Array([y \in 0 .. h - 1 |-> [x \in 0 .. w - 1 |->
        IF Dist2(y, x, spot.center_x, spot.center_y) <= spot.radius * spot.radius
        THEN LET g == GlareGradient(Dist2(y, x, spot.center_x, spot.center_y), spot.radius)
             IN <<GlareAdd(buf[y][x][1], intensity, g), GlareAdd(buf[y][x][2], intensity, g),
                  GlareAdd(buf[y][x][3], intensity, g)>>
        ELSE buf[y][x]]])

RECURSIVE GlareLoop(_, _, _, _, _, _, _)
(* the loop over range(num_glares), from iteration i, after k draws *)
GlareLoop(buf, w, h, intensity, s, i, n) ==
    IF i > n THEN buf
    ELSE GlareLoop(GlareStep(buf, w, h, intensity, GlareSpot(w, h, s, 3 * (i - 1))),
                   w, h, intensity, s, i + 1, n)

(* the content of the caller's array after a call whose stores in place    *)
(* went to the array object target and left content there                  *)
AfterStores(img, target, content) == IF target = CallerArray THEN content ELSE img

(* glare_image, the array the loop stores into in place: image.copy()      *)
(* converted to float32, a new array                                       *)
GlareTarget == NewArray

(* the result of add_glare_effect(img, intensity, num_glares) run from     *)
(* generator state s: outcome, image, number of draws, locals; the array   *)
(* returned is the new one made by astype(np.uint8)                        *)
GlareResult(img, intensity, num_glares, s, nanv) ==
    [status |-> "returned", err |-> "",
     img |-> AsUint8(GlareLoop(AsFloat(img), img.width, img.height, intensity, s, 1, num_glares),
                     img.height, img.width, nanv),
     used |-> 3 * num_glares,
     spots |-> [i \in 1 .. num_glares |-> GlareSpot(img.width, img.height, s, 3 * (i - 1))],
     owner |-> NewArray,
     arg_after |-> AfterStores(img, GlareTarget,
                               AsUint8(GlareLoop(AsFloat(img), img.width, img.height,
                                                 intensity, s, 1, num_glares),
                                       img.height, img.width, nanv))]

LightingCall(name, img, args, res) ==
    /\ script = "create_lighting_effects"
    /\ call.op = "none"
    /\ draws < MaxDraws
    /\ call' = [op |-> name, image |-> img, args |-> args, rng |-> rng]
    /\ rng' = RngAt(rng, res.used)
    /\ draws' = draws + res.used
    /\ UNCHANGED <<script, threads, batch>>

add_glare_effect(img, intensity, num_glares, nanv) ==
    LET res == GlareResult(img, intensity, num_glares, rng, nanv)
    IN /\ LightingCall("add_glare_effect", img,
                       [NoArgs EXCEPT !.glare_intensity = intensity, !.num_glares = num_glares],
                       res)
       /\ ret' = Returned("image", <<res.img>>)
       /\ aux' = [NoAux EXCEPT !.spots = res.spots, !.owners = <<res.owner>>,
                               !.image_after = <<res.arg_after>>]

(* ---- add_shadow_effect ---- *)
RECURSIVE KernelFrom(_, _, _)
(* cv2.getGaussianKernel(ksize, 0): weights exp(-(i - c)^2 / (2 sigma^2)),  *)
(* sigma = 0.3*((ksize-1)*0.5 - 1) + 0.8; sigma10 is sigma in tenths        *)
KernelFrom(i, ksize, sigma10) ==
    IF i > ksize THEN <<>>
    ELSE LET d == i - 1 - (ksize - 1) \div 2
         IN <<ExpNegQ((d * d * 100 * Q) \div (2 * sigma10 * sigma10))>>
              \o KernelFrom(i + 1, ksize, sigma10)

GaussianKernel(ksize) == KernelFrom(1, ksize, 3 * ((ksize - 1) \div 2 - 1) + 8)

Kernel51 == GaussianKernel(51)
Kernel31 == GaussianKernel(31)
Kernel41 == GaussianKernel(41)

RECURSIVE SumSeq(_, _)
SumSeq(seq, i) == IF i = 0 THEN 0 ELSE seq[i] + SumSeq(seq, i - 1)

(* cv2.BORDER_REFLECT_101: the index that position p of a line of n maps to *)
Reflect101(p, n) ==
    IF n = 1 THEN 0
    ELSE LET m == p % (2 * (n - 1))
         IN IF m < n THEN m ELSE 2 * (n - 1) - m

RECURSIVE TapsOnto(_, _, _, _, _)
(* the total weight of the taps i..1 of the kernel that, centred at        *)
(* position p of a line of n, read index u of the line                     *)
TapsOnto(kernel, p, u, n, i) ==
    IF i = 0 THEN 0
    ELSE (IF Reflect101(p + i - 1 - (Len(kernel) - 1) \div 2, n) = u THEN kernel[i] ELSE 0)
           + TapsOnto(kernel, p, u, n, i - 1)

(* the line lengths the blur is applied to *)
BlurSizes == {img.width : img \in ShadowImages \cup ApplyImages}
               \cup {img.height : img \in ShadowImages \cup ApplyImages}

(* the kernel applied along a line of n with its border: for every         *)
(* position p, the weight with which every index u of the line is read     *)
Folded(kernel) ==
    [n \in BlurSizes |-> [p \in 0 .. n - 1 |-> [u \in 0 .. n - 1 |->
        TapsOnto(kernel, p, u, n, Len(kernel))]]]

Total51 == SumSeq(Kernel51, 51)
Total31 == SumSeq(Kernel31, 31)
Total41 == SumSeq(Kernel41, 41)

Folded51 == Folded(Kernel51)
Folded31 == Folded(Kernel31)
Folded41 == Folded(Kernel41)

RECURSIVE RowTaps(_, _, _, _)
RowTaps(m, weights, y, u) ==
    IF u < 0 THEN 0 ELSE weights[u] * m[y][u] + RowTaps(m, weights, y, u - 1)

RECURSIVE ColTaps(_, _, _, _)
ColTaps(m, weights, x, u) ==
    IF u < 0 THEN 0 ELSE weights[u] * m[u][x] + ColTaps(m, weights, x, u - 1)

(* cv2.GaussianBlur(mask, (ksize, ksize), 0): the separable filter, rows   *)
(* then columns, of a non-empty mask with values in units of 1/Q; folded   *)
(* is the kernel applied along a line, total the sum of its weights        *)
GaussianBlur(mask, h, w, folded, total) ==
    LET rows == Array([y \in 0 .. h - 1 |-> [x \in 0 .. w - 1 |->
                         RowTaps(mask, folded[w][x], y, w - 1) \div total]])
    IN Array([y \in 0 .. h - 1 |-> [x \in 0 .. w - 1 |->
                 ColTaps(rows, folded[h][y], x, h - 1) \div total]])

(* the point q lies on the segment from a to b; points are <<x, y>> *)
OnSegment(q, a, b) ==
    /\ (b[1] - a[1]) * (q[2] - a[2]) = (b[2] - a[2]) * (q[1] - a[1])
    /\ Min(a[1], b[1]) <= q[1] /\ q[1] <= Max(a[1], b[1])
    /\ Min(a[2], b[2]) <= q[2] /\ q[2] <= Max(a[2], b[2])

(* the edge from a to b crosses the horizontal ray from q to the right *)
Crosses(q, a, b) ==
    /\ (a[2] > q[2]) # (b[2] > q[2])
    /\ LET t == (q[2] - a[2]) * (b[1] - a[1]) - (q[1] - a[1]) * (b[2] - a[2])
       IN IF b[2] > a[2] THEN t > 0 ELSE t < 0

(* cv2.fillPoly(mask, [points], 255): the edges of the polygon and the     *)
(* points inside it by the even-odd rule are set                           *)
InPolygon(q, points) ==
    LET n == Len(points)
        edge(i) == <<points[i], points[(i % n) + 1]>>
    IN \/ \E i \in 1 .. n : OnSegment(q, edge(i)[1], edge(i)[2])
       \/ Cardinality({i \in 1 .. n : Crosses(q, edge(i)[1], edge(i)[2])}) % 2 = 1

(* the shape drawn by one shadow, after k draws from state s: its type,    *)
(* its parameters and the number of draws it makes                         *)
ShadowShape(w, h, s, k) ==
    LET shadow_type == Choice(s, k + 1, <<"rectangular", "circular", "irregular">>)
    IN IF shadow_type = "rectangular"
       THEN LET x1 == RandInt(s, k + 2, 0, PctInt(w, 70))
                y1 == RandInt(s, k + 3, 0, PctInt(h, 70))
            IN [shadow_type |-> shadow_type, used |-> 5,
                x1 |-> x1, y1 |-> y1,
                x2 |-> RandInt(s, k + 4, x1, w), y2 |-> RandInt(s, k + 5, y1, h),
                center_x |-> 0, center_y |-> 0, radius |-> 0, points |-> <<>>]
       ELSE IF shadow_type = "circular"
       THEN [shadow_type |-> shadow_type, used |-> 4,
             x1 |-> 0, y1 |-> 0, x2 |-> 0, y2 |-> 0,
             center_x |-> RandInt(s, k + 2, PctInt(w, 20), PctInt(w, 80)),
             center_y |-> RandInt(s, k + 3, PctInt(h, 20), PctInt(h, 80)),
             radius |-> RandInt(s, k + 4, PctInt(Min(w, h), 10), PctInt(Min(w, h), 30)),
             points |-> <<>>]
       ELSE LET num_points == RandInt(s, k + 2, 3, 6)
            IN [shadow_type |-> shadow_type, used |-> 2 + 2 * num_points,
                x1 |-> 0, y1 |-> 0, x2 |-> 0, y2 |-> 0,
                center_x |-> 0, center_y |-> 0, radius |-> 0,
                points |-> [j \in 1 .. num_points |->
                               <<RandInt(s, k + 1 + 2 * j, PctInt(w, 10), PctInt(w, 90)),
                                 RandInt(s, k + 2 + 2 * j, PctInt(h, 10), PctInt(h, 90))>>]]

(* the mask of a shape before the blur, in units of 1/Q *)
ShapeMask(shape, h, w) ==
    Array([y \in 0 .. h - 1 |-> [x \in 0 .. w - 1 |->
        IF shape.shadow_type = "rectangular"
        THEN IF /\ shape.y1 <= y /\ y < shape.y2
                /\ shape.x1 <= x /\ x < shape.x2 THEN Q ELSE 0
        ELSE IF shape.shadow_type = "circular"
        THEN IF Dist2(y, x, shape.center_x, shape.center_y) <= shape.radius * shape.radius
             THEN Q ELSE 0
        ELSE IF InPolygon(<<x, y>>, shape.points) THEN Q ELSE 0]])

ShapeFolded(shape) ==
    IF shape.shadow_type = "rectangular" THEN Folded51
    ELSE IF shape.shadow_type = "circular" THEN Folded31
    ELSE Folded41

ShapeTotal(shape) ==
    IF shape.shadow_type = "rectangular" THEN Total51
    ELSE IF shape.shadow_type = "circular" THEN Total31
    ELSE Total41

(* the blurred mask of a shape *)
ShadowMask(shape, h, w) ==
    GaussianBlur(ShapeMask(shape, h, w), h, w, ShapeFolded(shape), ShapeTotal(shape))

(* mutant: the mask brightens, v * (1 + intensity * mask) *)
ShadowMul_Brighten(v, intensity, mask) == (v * (Q + (intensity * mask) \div 100)) \div Q

(* v * (1 - intensity * mask) *)
ShadowMul(v, intensity, mask) == (v * (Q - (intensity * mask) \div 100)) \div Q

ShadowStep(buf, w, h, intensity, mask) ==
    Array([y \in 0 .. h - 1 |-> [x \in 0 .. w - 1 |->
        <<ShadowMul(buf[y][x][1], intensity, mask[y][x]), ShadowMul(buf[y][x][2], intensity, mask[y][x]),
          ShadowMul(buf[y][x][3], intensity, mask[y][x])>>]])

RECURSIVE ShadowLoop(_, _, _, _, _, _, _, _)
(* the loop over range(num_shadows), from iteration i, after k draws:      *)
(* the final buffer and the number of draws made                           *)
ShadowLoop(buf, w, h, intensity, s, k, i, n) ==
    IF i > n THEN [buf |-> buf, used |-> k]
    ELSE LET shape == ShadowShape(w, h, s, k)
         IN ShadowLoop(ShadowStep(buf, w, h, intensity, ShadowMask(shape, h, w)),
                       w, h, intensity, s, k + shape.used, i + 1, n)

(* the result of add_shadow_effect(img, intensity, num_shadows) run from   *)
(* generator state s.  cv2.GaussianBlur rejects an empty mask: the first   *)
(* shadow of an image with a zero dimension raises, after its draws.       *)
ShadowResult(img, intensity, num_shadows, s) ==
    IF num_shadows >= 1 /\ (img.height = 0 \/ img.width = 0)
    THEN [status |-> "raised", err |-> "cv2.error", img |-> img,
          used |-> ShadowShape(img.width, img.height, s, 0).used,
          owner |-> NewArray, arg_after |-> img]
    ELSE LET loop == ShadowLoop(AsFloat(img), img.width, img.height, intensity, s, 0, 1, num_shadows)
         IN [status |-> "returned", err |-> "",
             img |-> ClipUint8(loop.buf, img.height, img.width),
             used |-> loop.used,
             owner |-> NewArray, arg_after |-> img]

add_shadow_effect(img, intensity, num_shadows) ==
    LET res == ShadowResult(img, intensity, num_shadows, rng)
    IN /\ LightingCall("add_shadow_effect", img,
                       [NoArgs EXCEPT !.shadow_intensity = intensity, !.num_shadows = num_shadows],
                       res)
       /\ ret' = IF res.status = "raised" THEN Raised(res.err)
                 ELSE Returned("image", <<res.img>>)
       /\ aux' = [NoAux EXCEPT !.owners = IF res.status = "raised" THEN <<>>
                                          ELSE <<res.owner>>,
                               !.image_after = <<res.arg_after>>]

(* ---- add_uneven_lighting ---- *)
(* np.linspace(1 - intensity, 1 + intensity, n)[j], in units of 1/Q *)
Linspace(intensity, n, j) ==
    IF n = 1 THEN Q - 10 * intensity
    ELSE Q - 10 * intensity + (20 * intensity * j) \div (n - 1)

GradientField(w, h, intensity, direction) ==
    [y \in 0 .. h - 1 |-> [x \in 0 .. w - 1 |->
        IF direction = "horizontal" THEN Linspace(intensity, w, x)
        ELSE IF direction = "vertical" THEN Linspace(intensity, h, y)
        ELSE Q - 10 * intensity + (20 * intensity * (x + y)) \div (w + h)]]

SpotlightField(w, h, intensity, center_x, center_y) ==
    [y \in 0 .. h - 1 |-> [x \in 0 .. w - 1 |->
        Clip(Q + (10 * intensity * (Q - (2 * SqrtQ(Dist2(y, x, center_x, center_y)) * Q)
                                          \div SqrtQ(w * w + h * h))) \div Q,
             Q - 10 * intensity, Q + 10 * intensity)]]

(* mutant: max_distance taken as the full diagonal, not half of it *)
VignetteField_FullDiagonal(w, h, intensity) ==
    [y \in 0 .. h - 1 |-> [x \in 0 .. w - 1 |->
        Clip(Q - (10 * intensity * Dist2(y, x, w \div 2, h \div 2)) \div (w * w + h * h),
             Q - 10 * intensity, Q)]]

(* 1 - intensity * (distance / max_distance)^2 with the centre at          *)
(* (width // 2, height // 2) and max_distance^2 = (w/2)^2 + (h/2)^2,       *)
(* clipped to [1 - intensity, 1]                                           *)
VignetteField(w, h, intensity) ==
    [y \in 0 .. h - 1 |-> [x \in 0 .. w - 1 |->
        Clip(Q - (40 * intensity * Dist2(y, x, w \div 2, h \div 2)) \div (w * w + h * h),
             Q - 10 * intensity, Q)]]

(* v * gain *)
GainMul(v, gain) == (v * gain) \div Q

(* the result of add_uneven_lighting(img, lighting_type, intensity) run    *)
(* from generator state s; an unknown lighting_type leaves gradient        *)
(* unbound at its first use                                                *)
UnevenResult(img, lighting_type, intensity, s) ==
    LET w == img.width
        h == img.height
        known == lighting_type \in {"gradient", "spotlight", "vignette"}
        used == IF lighting_type = "gradient" THEN 1
                ELSE IF lighting_type = "spotlight" THEN 2 ELSE 0
        gradient ==
            Array(IF lighting_type = "gradient"
                  THEN GradientField(w, h, intensity,
                                     Choice(s, 1, <<"horizontal", "vertical", "diagonal">>))
                  ELSE IF lighting_type = "spotlight"
                  THEN SpotlightField(w, h, intensity,
                                      w \div 2 + RandInt(s, 1, (-w) \div 4, w \div 4),
                                      h \div 2 + RandInt(s, 2, (-h) \div 4, h \div 4))
                  ELSE VignetteField(w, h, intensity))
        buf == [y \in 0 .. h - 1 |-> [x \in 0 .. w - 1 |->
                   <<GainMul(Q * img.px[y][x][1], gradient[y][x]),
                     GainMul(Q * img.px[y][x][2], gradient[y][x]),
                     GainMul(Q * img.px[y][x][3], gradient[y][x])>>]]
    IN IF known
       THEN [status |-> "returned", err |-> "", img |-> ClipUint8(buf, h, w),
             used |-> used, gradient |-> gradient,
             owner |-> NewArray, arg_after |-> img]
       ELSE [status |-> "raised", err |-> "UnboundLocalError", img |-> img,
             used |-> 0, gradient |-> <<>>,
             owner |-> NewArray, arg_after |-> img]

add_uneven_lighting(img, lighting_type, intensity) ==
    LET res == UnevenResult(img, lighting_type, intensity, rng)
    IN /\ LightingCall("add_uneven_lighting", img,
                       [NoArgs EXCEPT !.lighting_type = lighting_type,
                                      !.lighting_intensity = intensity],
                       res)
       /\ ret' = IF res.status = "raised" THEN Raised(res.err)
                 ELSE Returned("image", <<res.img>>)
       /\ aux' = [NoAux EXCEPT !.gradient = res.gradient,
                               !.owners = IF res.status = "raised" THEN <<>>
                                          ELSE <<res.owner>>,
                               !.image_after = <<res.arg_after>>]

(* ---- apply_lighting_effects ---- *)
(* intensity * 0.8, in hundredths *)
Scaled(intensity) == (intensity * 8) \div 10

(* the value apply_lighting_effects returns for one effect: the image of   *)
(* the effect's result r, after `drawn` draws made before the effect       *)
SingleEffect(r, drawn) ==
    [status |-> r.status, err |-> r.err, kind |-> "image", imgs |-> <<r.img>>,
     used |-> drawn + r.used, fired |-> <<>>,
     owners |-> <<r.owner>>, arg_after |-> r.arg_after]

(* effect_type == 'uneven_light' *)
UnevenLightResult(img, a, s, nanv) ==
    SingleEffect(UnevenResult(img, Choice(s, 1, LightingTypes), a.lighting_intensity,
                              RngAt(s, 1)), 1)

(* effect_type == 'combined', the end: the glare g gated by fire3 is       *)
(* applied to result2, the array object own2, k2 draws made before the     *)
(* third random.random(); orig is the content of the caller's array        *)
CombinedReturn(fire1, fire2, fire3, result2, own2, orig, k2, g) ==
    [status |-> "returned", err |-> "", kind |-> "image",
     imgs |-> <<IF fire3 THEN g.img ELSE result2>>,
     used |-> IF fire3 THEN k2 + 1 + g.used ELSE k2 + 1,
     fired |-> <<fire1, fire2, fire3>>,
     owners |-> <<IF fire3 THEN g.owner ELSE own2>>,
     arg_after |-> IF fire3 /\ own2 = CallerArray THEN g.arg_after ELSE orig]

(* the third draw of random.random() and the glare it gates *)
CombinedGlare(a, s, nanv, fire1, fire2, result2, own2, orig, k2) ==
    CombinedReturn(fire1, fire2, RandomQ(s, k2 + 1) < 300, result2, own2, orig, k2,
                   GlareResult(result2, Scaled(a.glare_intensity), a.num_glares,
                               RngAt(s, k2 + 1), nanv))

(* the shadow sh gated by fire2 is applied to result1, the array object    *)
(* own1, k1 draws made before the second random.random()                   *)
CombinedShadowed(a, s, nanv, fire1, fire2, result1, own1, orig, k1, sh) ==
    IF fire2 /\ sh.status = "raised"
    THEN [status |-> "raised", err |-> sh.err, kind |-> "none", imgs |-> <<>>,
          used |-> k1 + 1 + sh.used, fired |-> <<fire1, fire2, FALSE>>,
          owners |-> <<>>, arg_after |-> orig]
    ELSE CombinedGlare(a, s, nanv, fire1, fire2,
                       IF fire2 THEN sh.img ELSE result1,
                       IF fire2 THEN sh.owner ELSE own1,
                       IF fire2 /\ own1 = CallerArray THEN sh.arg_after ELSE orig,
                       IF fire2 THEN k1 + 1 + sh.used ELSE k1 + 1)

(* the second draw of random.random() and the shadow it gates *)
CombinedShadow(a, s, nanv, fire1, result1, own1, orig, k1) ==
    CombinedShadowed(a, s, nanv, fire1, RandomQ(s, k1 + 1) < 500, result1, own1, orig, k1,
                     ShadowResult(result1, Scaled(a.shadow_intensity), a.num_shadows,
                                  RngAt(s, k1 + 1)))

(* mutant: the shadow and the glare start from the image the lighting      *)
(* was applied to, not from the lit image                                  *)
CombinedLit_FromOriginal(img, result, own, a, s, nanv, fire1, u) ==
    CombinedShadow(a, s, nanv, fire1, result, own, img,
                   IF fire1 THEN 2 + u.used ELSE 1)

(* the uneven lighting u gated by fire1 is applied to result, the array    *)
(* object own                                                              *)
CombinedLit(img, result, own, a, s, nanv, fire1, u) ==
    CombinedShadow(a, s, nanv, fire1,
                   IF fire1 THEN u.img ELSE result,
                   IF fire1 THEN u.owner ELSE own,
                   IF fire1 /\ own = CallerArray THEN u.arg_after ELSE img,
                   IF fire1 THEN 2 + u.used ELSE 1)

(* the first draw of random.random() and the uneven lighting it gates,     *)
(* applied to result, the array object own                                 *)
CombinedLight(img, result, own, a, s, nanv) ==
    CombinedLit(img, result, own, a, s, nanv, RandomQ(s, 1) < 700,
                UnevenResult(result, Choice(s, 2, LightingTypes),
                             Scaled(a.lighting_intensity), RngAt(s, 2)))

(* mutant: result = image, the caller's array, not a copy of it *)
CombinedResult_NoCopy(img, a, s, nanv) == CombinedLight(img, img, CallerArray, a, s, nanv)

(* effect_type == 'combined': result = image.copy(), a new array, then the *)
(* three draws of random.random(), each followed by the effect it gates,   *)
(* applied to the running result                                           *)
CombinedResult(img, a, s, nanv) == CombinedLight(img, img, NewArray, a, s, nanv)

(* effect_type == 'all', the end: the tuple                                *)
(* (glare_image, shadow_image, lighting_images)                            *)
AllReturn(g, sh, l1, l2, l3) ==
    [status |-> "returned", err |-> "", kind |-> "tuple",
     imgs |-> <<g.img, sh.img, l1.img, l2.img, l3.img>>,
     used |-> g.used + sh.used + l1.used + l2.used + l3.used, fired |-> <<>>,
     owners |-> <<g.owner, sh.owner, l1.owner, l2.owner, l3.owner>>,
     arg_after |-> l3.arg_after]

(* the loop over lighting_types, its third iteration; image is the array   *)
(* every effect is applied to, whose content is what the call before left  *)
AllLit(a, s, g, sh, l1, l2) ==
    AllReturn(g, sh, l1, l2,
              UnevenResult(l2.arg_after, LightingTypes[3], a.lighting_intensity,
                           RngAt(s, g.used + sh.used + l1.used + l2.used)))

(* the loop over lighting_types, its second iteration *)
AllLighting(a, s, g, sh, l1) ==
    AllLit(a, s, g, sh, l1,
           UnevenResult(l1.arg_after, LightingTypes[2], a.lighting_intensity,
                        RngAt(s, g.used + sh.used + l1.used)))

(* after add_shadow_effect: its error ends the call *)
AllShadowed(a, s, g, sh) ==
    IF sh.status = "raised"
    THEN [status |-> "raised", err |-> sh.err, kind |-> "none", imgs |-> <<>>,
          used |-> g.used + sh.used, fired |-> <<>>,
          owners |-> <<>>, arg_after |-> sh.arg_after]
    ELSE AllLighting(a, s, g, sh,
                     UnevenResult(sh.arg_after, LightingTypes[1], a.lighting_intensity,
                                  RngAt(s, g.used + sh.used)))

(* mutant: the shadow applied to the glare image *)
AllGlared_Chained(a, s, g) ==
    AllShadowed(a, s, g,
                ShadowResult(g.img, a.shadow_intensity, a.num_shadows, RngAt(s, g.used)))

(* after add_glare_effect: the shadow is applied to the same array *)
AllGlared(a, s, g) ==
    AllShadowed(a, s, g,
                ShadowResult(g.arg_after, a.shadow_intensity, a.num_shadows,
                             RngAt(s, g.used)))

(* effect_type == 'all': every effect applied to the image passed in *)
AllResult(img, a, s, nanv) ==
    AllGlared(a, s, GlareResult(img, a.glare_intensity, a.num_glares, s, nanv))

(* the result of apply_lighting_effects run from generator state s; an     *)
(* effect_type that matches no branch falls off the end: None is returned  *)
ApplyResult(img, a, s, nanv) ==
    IF a.effect_type = "glare"
    THEN SingleEffect(GlareResult(img, a.glare_intensity, a.num_glares, s, nanv), 0)
    ELSE IF a.effect_type = "shadow"
    THEN SingleEffect(ShadowResult(img, a.shadow_intensity, a.num_shadows, s), 0)
    ELSE IF a.effect_type = "uneven_light" THEN UnevenLightResult(img, a, s, nanv)
    ELSE IF a.effect_type = "combined" THEN CombinedResult(img, a, s, nanv)
    ELSE IF a.effect_type = "all" THEN AllResult(img, a, s, nanv)
    ELSE [status |-> "returned", err |-> "", kind |-> "None", imgs |-> <<>>,
          used |-> 0, fired |-> <<>>, owners |-> <<>>, arg_after |-> img]

(* the state after apply_lighting_effects produced res *)
ApplyDone(img, a, res) ==
    /\ LightingCall("apply_lighting_effects", img, a, res)
    /\ ret' = IF res.status = "raised" THEN Raised(res.err)
              ELSE Returned(res.kind, res.imgs)
    /\ aux' = [NoAux EXCEPT !.fired = res.fired,
                            !.owners = IF res.status = "raised" THEN <<>> ELSE res.owners,
                            !.image_after = <<res.arg_after>>]

apply_lighting_effects(img, a, nanv) ==
    ApplyDone(img, a, ApplyResult(img, a, rng, nanv))

Init ==
    /\ script \in Scripts
    /\ call = NoCall
    /\ ret = NoRet
    /\ aux = NoAux
    /\ rng \in IF script = "create_lighting_effects" THEN Seeds ELSE {0}
    /\ draws = 0
    /\ threads = <<>>
    /\ batch = <<>>

(* The driver has written the result and moves on to the next image: the  *)
(* references to the image, the locals and the result are dropped.        *)
NextImage ==
    /\ call.op # "none"
    /\ call' = NoCall
    /\ ret' = NoRet
    /\ aux' = NoAux
    /\ UNCHANGED <<script, rng, draws, threads, batch>>

Next ==
    \/ NextImage
    \/ \E img \in ApplyImages, e \in EffectTypes, a \in ApplyArgs, nanv \in NanCast :
           apply_lighting_effects(img, [a EXCEPT !.effect_type = e], nanv)
    \/ \E img \in LightImages, t \in {"gradient", "spotlight", "vignette", "backlight"},
          i \in LightingIntensities :
           add_uneven_lighting(img, t, i)
    \/ \E img \in VignetteImages, i \in LightingIntensities :
           add_uneven_lighting(img, "vignette", i)
    \/ \E img \in ShadowImages, i \in ShadowIntensities, n \in 0 .. MaxCount :
           add_shadow_effect(img, i, n)
    \/ \E img \in GlareImages, i \in GlareIntensities, n \in 0 .. MaxCount, nanv \in NanCast :
           add_glare_effect(img, i, n, nanv)
    \/ \E img \in SkewImages, f \in Factors : apply_horizontal_skew(img, f)
    \/ \E img \in SkewImages, f \in Factors : apply_vertical_skew(img, f)
    \/ \E img \in SkewImages, hf \in Factors, vf \in Factors : apply_combined_skew(img, hf, vf)

Spec == Init /\ [][Next]_vars

(***************************************************************************)
(* Two calls of the lighting engine on two threads.  A call's work on its  *)
(* arrays is local to it; its draws go to the generator of the random      *)
(* module, one draw at a time.                                             *)
(***************************************************************************)
Threads == {1, 2}

ThreadImages == {MidImage, MkImage(MaxDim, MaxDim, "ramp")}

ThreadOps == {"add_glare_effect", "add_uneven_lighting"}

(* a thread: the call it runs, the state of the generator at the call's    *)
(* entry, the values it has drawn and what the call computed from them     *)
IdleThread == [pc |-> "idle", op |-> "none", image |-> NoImage, start |-> 0,
               drawn |-> <<>>, spot |-> <<>>, value |-> <<>>]

(* the draws of one call: add_glare_effect with num_glares = 1 draws       *)
(* center_x, center_y and radius; add_uneven_lighting('spotlight') draws   *)
(* the two offsets of the centre                                           *)
DrawsOf(op) == IF op = "add_glare_effect" THEN 3 ELSE 2

(* random.randint(a, b) given the state x the generator took at the draw *)
IntFrom(x, a, b) == a + ((x \div 16) % (b - a + 1))

(* the first two draws are taken in the other order *)
ThreadGlare_Swapped(w, h, drawn) ==
    [center_x |-> IntFrom(drawn[2], PctInt(w, 20), PctInt(w, 80)),
     center_y |-> IntFrom(drawn[1], PctInt(h, 20), PctInt(h, 80)),
     radius |-> IntFrom(drawn[3], PctInt(Min(w, h), 5), PctInt(Min(w, h), 15))]

(* the glare drawn by a thread, from the values it drew *)
ThreadGlare(w, h, drawn) ==
    [center_x |-> IntFrom(drawn[1], PctInt(w, 20), PctInt(w, 80)),
     center_y |-> IntFrom(drawn[2], PctInt(h, 20), PctInt(h, 80)),
     radius |-> IntFrom(drawn[3], PctInt(Min(w, h), 5), PctInt(Min(w, h), 15))]

(* the centre of the spotlight drawn by a thread *)
ThreadSpotlight(w, h, drawn) ==
    [center_x |-> w \div 2 + IntFrom(drawn[1], (-w) \div 4, w \div 4),
     center_y |-> h \div 2 + IntFrom(drawn[2], (-h) \div 4, h \div 4)]

(* np.clip(image * gain[:, :, np.newaxis], 0, 255).astype(np.uint8) *)
LitImage(img, gain) ==
    ClipUint8([y \in 0 .. img.height - 1 |-> [x \in 0 .. img.width - 1 |->
                  <<GainMul(Q * img.px[y][x][1], gain[y][x]),
                    GainMul(Q * img.px[y][x][2], gain[y][x]),
                    GainMul(Q * img.px[y][x][3], gain[y][x])>>]],
              img.height, img.width)

(* thread t enters add_glare_effect(img, 0.7, 1) or                        *)
(* add_uneven_lighting(img, 'spotlight', 0.5) on an image no other thread  *)
(* works on                                                                *)
ThreadCall(t, op, img) ==
    /\ threads[t].pc = "idle"
    /\ \A u \in Threads \ {t} : threads[u].image # img
    /\ threads' = [threads EXCEPT ![t] = [IdleThread EXCEPT !.pc = "draw", !.op = op,
                                                           !.image = img, !.start = rng]]
    /\ UNCHANGED <<script, call, ret, aux, rng, draws, batch>>

(* thread t makes its next draw: the generator of the module advances *)
ThreadDraw(t) ==
    /\ threads[t].pc = "draw"
    /\ Len(threads[t].drawn) < DrawsOf(threads[t].op)
    /\ rng' = RngNext(rng)
    /\ threads' = [threads EXCEPT ![t].drawn = Append(@, RngNext(rng))]
    /\ UNCHANGED <<script, call, ret, aux, draws, batch>>

(* thread t computes its result from the values it drew and returns *)
ThreadReturn(t, nanv) ==
    /\ threads[t].pc = "draw"
    /\ Len(threads[t].drawn) = DrawsOf(threads[t].op)
    /\ LET img == threads[t].image
           w == img.width
           h == img.height
       IN threads' =
            [threads EXCEPT ![t] =
                IF threads[t].op = "add_glare_effect"
                THEN [@ EXCEPT !.pc = "done",
                               !.spot = ThreadGlare(w, h, threads[t].drawn),
                               !.value = <<AsUint8(GlareStep(AsFloat(img), w, h, 70,
                                                             ThreadGlare(w, h, threads[t].drawn)),
                                                   h, w, nanv)>>]
                ELSE [@ EXCEPT !.pc = "done",
                               !.spot = ThreadSpotlight(w, h, threads[t].drawn),
                               !.value = <<LitImage(img,
                                   Array(SpotlightField(w, h, 50,
                                       ThreadSpotlight(w, h, threads[t].drawn).center_x,
                                       ThreadSpotlight(w, h, threads[t].drawn).center_y)))>>]]
    /\ UNCHANGED <<script, call, ret, aux, rng, draws, batch>>

ThreadsInit ==
    /\ script = "create_lighting_effects"
    /\ call = NoCall
    /\ ret = NoRet
    /\ aux = NoAux
    /\ rng \in Seeds
    /\ draws = 0
    /\ threads = [t \in Threads |-> IdleThread]
    /\ batch = <<>>

ThreadsNext ==
    \/ \E t \in Threads, op \in ThreadOps, img \in ThreadImages : ThreadCall(t, op, img)
    \/ \E t \in Threads : ThreadDraw(t)
    \/ \E t \in Threads, nanv \in NanCast : ThreadReturn(t, nanv)

ThreadsSpec == ThreadsInit /\ [][ThreadsNext]_vars

(***************************************************************************)
(* The batch loops: create_lighting_dataset and the two                    *)
(* create_skewed_dataset.  The directory listing is the same when the      *)
(* images are counted and when they are processed.                         *)
(***************************************************************************)
(* what happens to a file: it is read and processed, cv2.imread returns    *)
(* None for it, or an exception is raised while it is transformed or       *)
(* written (cv2.error, OSError, MemoryError)                               *)
FileKinds == {"good", "unreadable", "raises"}

(* the *.jpg files of a country directory *)
RECURSIVE Listings(_)
Listings(n) ==
    IF n = 0 THEN {<<>>}
    ELSE Listings(n - 1) \cup {Append(l, k) : l \in {m \in Listings(n - 1) : Len(m) = n - 1},
                                              k \in FileKinds}

(* countries_to_process: two country directories *)
Datasets == {<<a, b>> : a \in Listings(MaxFiles), b \in Listings(MaxFiles)}

(* the effect types a batch is run with *)
BatchEffects == {"glare", "sepia"}

(* the image cv2.imread returns for a readable file *)
FileImage == MkImage(1, 2, "ramp")

RECURSIVE SumLen(_, _)
(* total_images: the sum of len(jpg_files) over the first n countries *)
SumLen(dirs, n) == IF n = 0 THEN 0 ELSE Len(dirs[n]) + SumLen(dirs, n - 1)

NoBatch == [pc |-> "none", dirs |-> <<>>, effect_type |-> "", country |-> 0, file |-> 0,
            image |-> <<>>, total_images |-> 0, processed_images |-> 0,
            attempted |-> <<>>]

(* the function is entered: the countries are listed, the images counted   *)
(* and processed_images set to 0                                           *)
BatchStart ==
    /\ batch.pc = "start"
    /\ batch' = [batch EXCEPT !.pc = "country", !.country = 0,
                              !.total_images = SumLen(batch.dirs, Len(batch.dirs)),
                              !.processed_images = 0]
    /\ UNCHANGED <<script, call, ret, aux, rng, draws, threads>>

(* for country in countries_to_process: the next country, or the end *)
NextCountry ==
    /\ batch.pc = "country"
    /\ batch' = IF batch.country < Len(batch.dirs)
                THEN [batch EXCEPT !.pc = "file", !.country = @ + 1, !.file = 0]
                ELSE [batch EXCEPT !.pc = "done"]
    /\ UNCHANGED <<script, call, ret, aux, rng, draws, threads>>

(* for jpg_file in jpg_files: the next file of the country, or back to the *)
(* loop over the countries                                                 *)
NextFile ==
    /\ batch.pc = "file"
    /\ batch' = IF batch.file < Len(batch.dirs[batch.country])
                THEN [batch EXCEPT !.pc = "read", !.file = @ + 1, !.image = <<>>,
                                   !.attempted = Append(@, <<batch.country, batch.file + 1>>)]
                ELSE [batch EXCEPT !.pc = "country"]
    /\ UNCHANGED <<script, call, ret, aux, rng, draws, threads>>

(* image = cv2.imread(...); if image is None: continue *)
ReadImage ==
    /\ batch.pc = "read"
    /\ batch' = IF batch.dirs[batch.country][batch.file] = "unreadable"
                THEN [batch EXCEPT !.pc = "file"]
                ELSE [batch EXCEPT !.pc = "process", !.image = <<FileImage>>]
    /\ UNCHANGED <<script, call, ret, aux, rng, draws, threads>>

(* the effect_type values that match a branch of apply_lighting_effects;  *)
(* for any other it returns None, and cv2.imwrite rejects None with        *)
(* cv2.error                                                               *)
KnownEffects == {"glare", "shadow", "uneven_light", "combined", "all"}

(* the body of the try block after the read, in create_lighting_dataset:   *)
(* apply_lighting_effects, which takes its draws from the generator, and   *)
(* cv2.imwrite of its result; the batch is run with num_glares = 1         *)
ProcessLighting ==
    /\ batch.pc = "process"
    /\ script = "create_lighting_effects"
    /\ rng' = IF batch.effect_type = "glare"
              THEN RngAt(rng, DrawsOf("add_glare_effect"))
              ELSE rng
    /\ batch' = IF \/ batch.dirs[batch.country][batch.file] = "raises"
                   \/ batch.effect_type \notin KnownEffects
                THEN [batch EXCEPT !.pc = "except"]
                ELSE [batch EXCEPT !.pc = "count"]
    /\ UNCHANGED <<script, call, ret, aux, draws, threads>>

(* the body of the try block after the read, in create_skewed_dataset:     *)
(* the skew functions and cv2.imwrite of their results                     *)
ProcessSkew ==
    /\ batch.pc = "process"
    /\ script # "create_lighting_effects"
    /\ LET img == batch.image[1]
           res == WarpPerspective(img, HorizontalDsize(img.width, img.height, 15))
       IN batch' = IF \/ batch.dirs[batch.country][batch.file] = "raises"
                      \/ res.status = "raised"
                   THEN [batch EXCEPT !.pc = "except"]
                   ELSE [batch EXCEPT !.pc = "count"]
    /\ UNCHANGED <<script, call, ret, aux, rng, draws, threads>>

(* processed_images += 1 *)
CountImage ==
    /\ batch.pc = "count"
    /\ batch' = [batch EXCEPT !.pc = "file", !.processed_images = @ + 1]
    /\ UNCHANGED <<script, call, ret, aux, rng, draws, threads>>

(* the handler leaves the loops instead of continuing with the next file *)
HandleException_Stops ==
    /\ batch.pc = "except"
    /\ batch' = [batch EXCEPT !.pc = "done"]
    /\ UNCHANGED <<script, call, ret, aux, rng, draws, threads>>

(* except Exception as e: print(...); continue *)
HandleException ==
    /\ batch.pc = "except"
    /\ batch' = [batch EXCEPT !.pc = "file"]
    /\ UNCHANGED <<script, call, ret, aux, rng, draws, threads>>

BatchInit ==
    /\ script \in Scripts
    /\ call = NoCall
    /\ ret = NoRet
    /\ aux = NoAux
    /\ rng \in IF script = "create_lighting_effects" THEN Seeds ELSE {0}
    /\ draws = 0
    /\ threads = <<>>
    /\ \E dirs \in Datasets, e \in BatchEffects :
           batch = [NoBatch EXCEPT !.pc = "start", !.dirs = dirs,
                                   !.effect_type = IF script = "create_lighting_effects"
                                                   THEN e ELSE ""]

BatchNext ==
    \/ BatchStart
    \/ NextCountry
    \/ NextFile
    \/ ReadImage
    \/ ProcessLighting
    \/ ProcessSkew
    \/ CountImage
    \/ HandleException

(* the loop is a sequential program that keeps running *)
BatchSpec == BatchInit /\ [][BatchNext]_vars /\ WF_vars(BatchNext)


(***************************************************************************)
(* Properties of the skew transform                                        *)
(***************************************************************************)
SkewOps == {"apply_horizontal_skew", "apply_vertical_skew", "apply_combined_skew"}

W == call.image.width
H == call.image.height
HF == call.args.h_skew_factor
VF == call.args.v_skew_factor

(* C1 (as claimed): for every image with width, height >= 1 and every      *)
(* factor, in each skew mode, every destination corner (x, y) lies on the  *)
(* output canvas: 0 <= x, floor(x) <= output width, 0 <= y,                *)
(* floor(y) <= output height.                                              *)
C1_NoCornerClipped ==
    (call.op \in SkewOps /\ W >= 1 /\ H >= 1) =>
        \A i \in 1 .. 4 :
            /\ 0 <= aux.dst_points[i][1]
            /\ Floor(aux.dst_points[i][1], FDen) <= aux.dsize[1]
            /\ 0 <= aux.dst_points[i][2]
            /\ Floor(aux.dst_points[i][2], FDen) <= aux.dsize[2]

C3_CanvasRounds ==
    /\ (call.op = "apply_horizontal_skew" /\ ret.status = "returned") =>
           aux.dsize = <<W + RoundNearest(Abs(HF * H), FDen), H>>
    /\ (call.op = "apply_vertical_skew" /\ ret.status = "returned") =>
           aux.dsize = <<W + RoundNearest(Abs(VF * W), FDen), H>>
    /\ (call.op = "apply_combined_skew" /\ ret.status = "returned") =>
           aux.dsize = <<W + RoundNearest(Abs(VF * H) + Abs(HF * W), FDen),
                         H + RoundNearest(Abs(HF * W), FDen)>>

(* C3 (amended): the canvas adds the displacement magnitude truncated      *)
(* toward zero (not rounded to nearest) to the input dimension:            *)
(* horizontal (width + trunc(|hFactor*height|), height), vertical          *)
(* (width + trunc(|vFactor*width|), height), combined                      *)
(* (width + trunc(|vFactor*height| + |hFactor*width|),                     *)
(*  height + trunc(|hFactor*width|)).                                      *)
C3_CanvasTruncates ==
    /\ call.op = "apply_horizontal_skew" =>
           aux.dsize = <<W + PyInt(Abs(HF * H), FDen), H>>
    /\ call.op = "apply_vertical_skew" =>
           aux.dsize = <<W + PyInt(Abs(VF * W), FDen), H>>
    /\ call.op = "apply_combined_skew" =>
           aux.dsize = <<W + PyInt(Abs(VF * H) + Abs(HF * W), FDen),
                         H + PyInt(Abs(HF * W), FDen)>>

(* a displacement of 0.6 pixel: truncated to 0, rounded to 1 *)
C3_Witness ==
    /\ call.op = "apply_horizontal_skew"
    /\ W = 2 /\ H = 3 /\ HF = 20
    /\ ret.status = "returned"
    /\ aux.dsize = <<2, 3>>

(* C4: the canvas is the floor of the input dimension plus the             *)
(* displacement magnitudes, and is never smaller than the input image in   *)
(* either dimension.                                                       *)
C4_CanvasFloor ==
    /\ call.op = "apply_horizontal_skew" =>
           aux.dsize = <<Floor(FDen * W + Abs(HF * H), FDen), H>>
    /\ call.op = "apply_vertical_skew" =>
           aux.dsize = <<Floor(FDen * W + Abs(VF * W), FDen), H>>
    /\ call.op = "apply_combined_skew" =>
           aux.dsize = <<Floor(FDen * W + Abs(VF * H) + Abs(HF * W), FDen),
                         Floor(FDen * H + Abs(HF * W), FDen)>>
    /\ call.op \in SkewOps => (aux.dsize[1] >= W /\ aux.dsize[2] >= H)

C4_Witness ==
    /\ call.op = "apply_combined_skew"
    /\ W = 100 /\ H = 100 /\ HF = -30 /\ VF = -15
    /\ aux.dsize = <<145, 130>>

(* C5: horizontal mode displaces only the two bottom corners, to           *)
(* (hFactor*height, height) and (width + hFactor*height, height); vertical *)
(* mode displaces only the top-right corner, to (width + vFactor*width, 0).*)
(* A 100x100 image with horizontal factor 0.2 gets canvas (120, 100), its  *)
(* bottom edge shifted by 20 pixels and its top edge unchanged.            *)
C5_SingleAxisCorners ==
    /\ call.op = "apply_horizontal_skew" =>
           /\ aux.dst_points[1] = aux.src_points[1]
           /\ aux.dst_points[2] = aux.src_points[2]
           /\ aux.dst_points[3] = <<HF * H, FDen * H>>
           /\ aux.dst_points[4] = <<FDen * W + HF * H, FDen * H>>
    /\ call.op = "apply_vertical_skew" =>
           /\ aux.dst_points[1] = aux.src_points[1]
           /\ aux.dst_points[2] = <<FDen * W + VF * W, 0>>
           /\ aux.dst_points[3] = aux.src_points[3]
           /\ aux.dst_points[4] = aux.src_points[4]
    /\ (call.op = "apply_horizontal_skew" /\ W = 100 /\ H = 100 /\ HF = 20) =>
           /\ aux.dsize = <<120, 100>>
           /\ aux.dst_points[3][1] - aux.src_points[3][1] = 20 * FDen
           /\ aux.dst_points[4][1] - aux.src_points[4][1] = 20 * FDen
           /\ aux.dst_points[1] = <<0, 0>>
           /\ aux.dst_points[2] = <<100 * FDen, 0>>

C5_Witness ==
    /\ call.op = "apply_horizontal_skew"
    /\ W = 100 /\ H = 100 /\ HF = 20
    /\ ret.status = "returned"
    /\ aux.dsize = <<120, 100>>

(* C6: with factor 0 in the active axis (both factors 0 in combined mode)  *)
(* the destination corners equal the source corners and the output canvas  *)
(* equals the input (width, height).                                       *)
C6_ZeroFactorIdentity ==
    (\/ call.op = "apply_horizontal_skew" /\ HF = 0
     \/ call.op = "apply_vertical_skew" /\ VF = 0
     \/ call.op = "apply_combined_skew" /\ HF = 0 /\ VF = 0) =>
        /\ aux.dst_points = aux.src_points
        /\ aux.dsize = <<W, H>>

C6_Witness ==
    /\ call.op = "apply_vertical_skew"
    /\ VF = 0 /\ W = 2 /\ H = 3
    /\ ret.status = "returned"
    /\ aux.dsize = <<2, 3>>


(***************************************************************************)
(* Properties of the lighting effects                                      *)
(***************************************************************************)
(* the glare scenario: an all-black 50x50 image, intensity 0.7, one glare  *)
(* centred at (25, 25) with radius 5                                       *)
GlareScenario ==
    /\ call.op = "add_glare_effect"
    /\ call.image = Black50
    /\ call.args.glare_intensity = 70
    /\ call.args.num_glares = 1
    /\ aux.spots = <<[center_x |-> 25, center_y |-> 25, radius |-> 5]>>

(* C7 (as claimed): in the glare scenario the centre pixel becomes         *)
(* (255, 255, 255) and a pixel at distance 20 from the centre is unchanged.*)
C7_GlareCentreSaturated ==
    GlareScenario =>
        /\ ret.value[1].px[25][25] = <<255, 255, 255>>
        /\ ret.value[1].px[25][45] = call.image.px[25][45]

(* C7 (amended): in the glare scenario the centre pixel becomes            *)
(* (178, 178, 178), that is 0.7 * 255 truncated, on all three channels,    *)
(* and every pixel outside the glare circle, such as one at distance 20    *)
(* from the centre, keeps its original value.                              *)
C7_GlareCentreValue ==
    GlareScenario =>
        /\ ret.status = "returned"
        /\ ret.value[1].px[25][25] = <<178, 178, 178>>
        /\ ret.value[1].px[25][45] = call.image.px[25][45]
        /\ \A yx \in Pixels(50, 50) :
               Dist2(yx[1], yx[2], 25, 25) > 25 =>
                   ret.value[1].px[yx[1]][yx[2]] = call.image.px[yx[1]][yx[2]]

C7_Witness ==
    /\ GlareScenario
    /\ ret.status = "returned"
    /\ ret.value[1].px[25][25][1] = 178

(* a returned vignette of a non-empty image *)
VignetteCall ==
    /\ call.op = "add_uneven_lighting"
    /\ call.args.lighting_type = "vignette"
    /\ ret.status = "returned"
    /\ W >= 1 /\ H >= 1

LI == call.args.lighting_intensity

(* the smallest gain of the gain field *)
MinGain == CHOOSE g \in {aux.gradient[yx[1]][yx[2]] : yx \in Pixels(H, W)} :
               \A yx \in Pixels(H, W) : g <= aux.gradient[yx[1]][yx[2]]

Corners == {<<0, 0>>, <<0, W - 1>>, <<H - 1, 0>>, <<H - 1, W - 1>>}

(* C8 (as claimed): for every image size the vignette gain is 1 at the     *)
(* centre pixel and its minimum, attained at a corner pixel, equals        *)
(* 1 - intensity; every gain lies in [1 - intensity, 1].                   *)
C8_VignetteMinIsOneMinusIntensity ==
    VignetteCall =>
        /\ aux.gradient[H \div 2][W \div 2] = Q
        /\ MinGain = Q - 10 * LI
        /\ \E c \in Corners : aux.gradient[c[1]][c[2]] = Q - 10 * LI
        /\ \A yx \in Pixels(H, W) :
               /\ Q - 10 * LI <= aux.gradient[yx[1]][yx[2]]
               /\ aux.gradient[yx[1]][yx[2]] <= Q

(* C8 (amended): for every image size the vignette gain is exactly 1 at    *)
(* the centre pixel (width // 2, height // 2) and attains its minimum at   *)
(* the pixel farthest from the centre, the corner pixel (0, 0), where it   *)
(* is 1 - intensity*(d/maxDist)^2 >= 1 - intensity, with equality when     *)
(* width and height are both even (otherwise d < maxDist at every pixel);  *)
(* every gain lies in [1 - intensity, 1] and follows                       *)
(* 1 - intensity*(d/maxDist)^2.  For a 100x100 image with intensity 0.5    *)
(* the centre gain is 1.0 and the gain of the corner (0, 0) is 0.5.        *)
C8_VignetteGain ==
    VignetteCall =>
        /\ aux.gradient[H \div 2][W \div 2] = Q
        /\ MinGain = aux.gradient[0][0]
        /\ aux.gradient[0][0] >= Q - 10 * LI
        /\ (W % 2 = 0 /\ H % 2 = 0) => aux.gradient[0][0] = Q - 10 * LI
        /\ \A yx \in Pixels(H, W) :
               /\ Q - 10 * LI <= aux.gradient[yx[1]][yx[2]]
               /\ aux.gradient[yx[1]][yx[2]] <= Q
               /\ aux.gradient[yx[1]][yx[2]]
                    = Q - (10 * LI * 4 * Dist2(yx[1], yx[2], W \div 2, H \div 2))
                            \div (W * W + H * H)
        /\ (W = 100 /\ H = 100 /\ LI = 50) =>
               (aux.gradient[50][50] = Q /\ aux.gradient[0][0] = Q \div 2)

C8_Witness ==
    /\ VignetteCall
    /\ W = 100 /\ H = 100 /\ LI = 50
    /\ aux.gradient[50][50] = 1000
    /\ aux.gradient[0][0] = 500
    /\ aux.gradient[99][99] > 500

(* C9 (as claimed): apply_lighting_effects with an effect type outside     *)
(* {glare, shadow, uneven_light, combined, all} and add_uneven_lighting    *)
(* with a lighting kind outside {gradient, spotlight, vignette} fail with  *)
(* InvalidEffectSpec; neither returns a result nor any other error.        *)
C9_UnknownKindFails ==
    (\/ /\ call.op = "apply_lighting_effects"
        /\ call.args.effect_type \notin {"glare", "shadow", "uneven_light", "combined", "all"}
     \/ /\ call.op = "add_uneven_lighting"
        /\ call.args.lighting_type \notin {"gradient", "spotlight", "vignette"}) =>
        /\ ret.status = "raised"
        /\ ret.err = "InvalidEffectSpec"

(* C10 (as claimed): every engine entry point fails with InvalidImage when *)
(* the input image has width 0 or height 0, before any corner, canvas      *)
(* size, random draw or mask is computed; no result image is returned.     *)
C10_ZeroDimensionFails ==
    (call.op # "none" /\ (W = 0 \/ H = 0)) =>
        /\ ret.status = "raised"
        /\ ret.err = "InvalidImage"
        /\ aux = NoAux

(* a call of apply_lighting_effects with effect_type 'combined' *)
CombinedCall ==
    /\ call.op = "apply_lighting_effects"
    /\ call.args.effect_type = "combined"

(* the combined call fired exactly the sub-effects f1 (uneven lighting),   *)
(* f2 (shadow), f3 (glare) and returned                                    *)
CombinedFired(f1, f2, f3) ==
    /\ CombinedCall
    /\ ret.status = "returned"
    /\ aux.fired = <<f1, f2, f3>>

(* C11: combined mode applies uneven lighting, then shadow, then glare,    *)
(* each gated by its own draw of random.random() (below 0.7, 0.5, 0.3),    *)
(* each with its intensity scaled by 0.8, each applied to the running      *)
(* result of the sub-effects fired before it; when none fires the result   *)
(* has the pixel values of the input.                                      *)
C11_CombinedOrder ==
    CombinedCall =>
        LET a == call.args
            s == call.rng
            fire1 == RandomQ(s, 1) < 700
            u == UnevenResult(call.image, Choice(s, 2, LightingTypes),
                              (8 * a.lighting_intensity) \div 10, RngAt(s, 2))
            in2 == IF fire1 THEN u.img ELSE call.image
            k1 == IF fire1 THEN 2 + u.used ELSE 1
            fire2 == RandomQ(s, k1 + 1) < 500
            sh == ShadowResult(in2, (8 * a.shadow_intensity) \div 10, a.num_shadows,
                               RngAt(s, k1 + 1))
            in3 == IF fire2 THEN sh.img ELSE in2
            k2 == IF fire2 THEN k1 + 1 + sh.used ELSE k1 + 1
            fire3 == RandomQ(s, k2 + 1) < 300
        IN /\ aux.fired[1] = fire1
           /\ aux.fired[2] = fire2
           /\ ret.status = "returned" =>
                  /\ aux.fired[3] = fire3
                  /\ \E nanv \in NanCast :
                         ret.value = <<IF fire3
                                       THEN GlareResult(in3, (8 * a.glare_intensity) \div 10,
                                                        a.num_glares, RngAt(s, k2 + 1), nanv).img
                                       ELSE in3>>
                  /\ (~fire1 /\ ~fire2 /\ ~fire3) => ret.value[1].px = call.image.px

(* all three sub-effects fired, and the lighting and the shadow changed    *)
(* the image the glare was applied to                                      *)
C11_Witness ==
    /\ CombinedFired(TRUE, TRUE, TRUE)
    /\ W >= 2 /\ H >= 2
    /\ ret.value[1].px # call.image.px

(* a call of apply_lighting_effects with effect_type 'all' that returned *)
AllCall ==
    /\ call.op = "apply_lighting_effects"
    /\ call.args.effect_type = "all"
    /\ ret.status = "returned"

(* C12: all mode returns exactly five images in the order glare, shadow,   *)
(* gradient, spotlight, vignette; each is the result of that single        *)
(* effect, at the intensity passed in, applied to the caller's original    *)
(* image (the effects draw from the generator one after the other).        *)
C12_AllIndependent ==
    AllCall =>
        LET a == call.args
            s == call.rng
            sh == ShadowResult(call.image, a.shadow_intensity, a.num_shadows,
                               RngAt(s, 3 * a.num_glares))
            k == 3 * a.num_glares + sh.used
            l1 == UnevenResult(call.image, "gradient", a.lighting_intensity, RngAt(s, k))
            l2 == UnevenResult(call.image, "spotlight", a.lighting_intensity,
                               RngAt(s, k + l1.used))
            l3 == UnevenResult(call.image, "vignette", a.lighting_intensity,
                               RngAt(s, k + l1.used + l2.used))
        IN /\ ret.kind = "tuple"
           /\ Len(ret.value) = 5
           /\ \E nanv \in NanCast :
                  ret.value[1] = GlareResult(call.image, a.glare_intensity, a.num_glares,
                                             s, nanv).img
           /\ ret.value[2] = sh.img
           /\ ret.value[3] = l1.img
           /\ ret.value[4] = l2.img
           /\ ret.value[5] = l3.img

(* all mode on an image that the glare and the shadow both change *)
C12_Witness ==
    /\ AllCall
    /\ W >= 2 /\ H >= 2
    /\ Len(ret.value) = 5
    /\ ret.value[1] # call.image
    /\ ret.value[2] # call.image
    /\ ret.value[1] # ret.value[2]

(* a call of add_glare_effect that returned *)
GlareCall ==
    /\ call.op = "add_glare_effect"
    /\ ret.status = "returned"

(* the pixel (y, x) lies in the circle of a glare *)
InGlare(y, x) ==
    \E i \in DOMAIN aux.spots :
        Dist2(y, x, aux.spots[i].center_x, aux.spots[i].center_y)
            <= aux.spots[i].radius * aux.spots[i].radius

(* every channel of every pixel of the result is at least the input's and  *)
(* at most 255, and the pixels outside all glare circles are unchanged     *)
GlareBrightens ==
    \A yx \in Pixels(H, W) :
        /\ \A c \in 1 .. 3 :
               /\ call.image.px[yx[1]][yx[2]][c] <= ret.value[1].px[yx[1]][yx[2]][c]
               /\ ret.value[1].px[yx[1]][yx[2]][c] <= 255
        /\ ~InGlare(yx[1], yx[2]) =>
               ret.value[1].px[yx[1]][yx[2]] = call.image.px[yx[1]][yx[2]]

(* C14 (as claimed): for every intensity >= 0, every number of glares and  *)
(* every choice of centres and radii, add_glare_effect never lowers a      *)
(* channel, keeps it at most 255 and leaves the pixels outside all glare   *)
(* circles unchanged.                                                      *)
C14_GlareBrightens == GlareCall => GlareBrightens

(* the part of C14 the code keeps: the same, when every radius drawn is    *)
(* at least 1                                                              *)
GlareBrightensUnlessRadiusZero ==
    (GlareCall /\ \A i \in DOMAIN aux.spots : aux.spots[i].radius >= 1) => GlareBrightens

(* a call of add_shadow_effect that returned *)
ShadowCall ==
    /\ call.op = "add_shadow_effect"
    /\ ret.status = "returned"

(* every channel of every pixel of image p is at most that of image q *)
NotBrighter(p, q) ==
    \A yx \in Pixels(H, W) : \A c \in 1 .. 3 :
        p.px[yx[1]][yx[2]][c] <= q.px[yx[1]][yx[2]][c]

(* C15: for every intensity in [0, 1] and every number of shadows, every   *)
(* channel of every pixel of add_shadow_effect's result is at most the     *)
(* input's and at least 0, and the result of k shadows is nowhere greater  *)
(* than the result of the first k - 1 of them.                             *)
C15_ShadowDarkens ==
    (ShadowCall /\ call.args.shadow_intensity \in 0 .. 100) =>
        /\ NotBrighter(ret.value[1], call.image)
        /\ \A yx \in Pixels(H, W) : \A c \in 1 .. 3 : ret.value[1].px[yx[1]][yx[2]][c] >= 0
        /\ call.args.num_shadows >= 1 =>
               NotBrighter(ret.value[1],
                           ShadowResult(call.image, call.args.shadow_intensity,
                                        call.args.num_shadows - 1, call.rng).img)

(* two shadows at intensity 0.4, the second darkening what the first left *)
C15_Witness ==
    /\ ShadowCall
    /\ call.args.shadow_intensity = 40
    /\ call.args.num_shadows = 2
    /\ W >= 2 /\ H >= 2
    /\ ret.value[1] # call.image
    /\ ret.value[1] # ShadowResult(call.image, 40, 1, call.rng).img

(* C16: no lighting or skew call changes the caller's image or returns it: *)
(* after the call the input holds the pixel values it had, and every       *)
(* returned image is an array other than the caller's, also in combined    *)
(* mode when no sub-effect fires.                                          *)
C16_InputNotAliased ==
    call.op # "none" =>
        /\ aux.image_after = <<call.image>>
        /\ \A i \in DOMAIN aux.owners : aux.owners[i] # CallerArray
        /\ (ret.status = "returned" /\ ret.kind # "None") => Len(aux.owners) >= 1
        /\ Len(ret.value) >= 1 => Len(aux.owners) = Len(ret.value)

(* combined mode with no sub-effect fired: the result has the pixel values *)
(* of the input and is another array                                       *)
C16_Witness ==
    /\ CombinedFired(FALSE, FALSE, FALSE)
    /\ W >= 1 /\ H >= 1
    /\ ret.value = <<call.image>>
    /\ aux.owners = <<NewArray>>
    /\ aux.image_after = <<call.image>>

(***************************************************************************)
(* Properties of concurrent calls                                          *)
(***************************************************************************)
(* the call of thread t drew and computed what it would have, had it run   *)
(* alone from the state the generator had at its entry                     *)
AsIfAlone(t) ==
    LET th == threads[t]
        w == th.image.width
        h == th.image.height
    IN IF th.op = "add_glare_effect"
       THEN /\ th.spot = GlareSpot(w, h, th.start, 0)
            /\ \E nanv \in NanCast :
                   th.value = <<GlareResult(th.image, 70, 1, th.start, nanv).img>>
       ELSE /\ th.spot = [center_x |-> w \div 2 + RandInt(th.start, 1, (-w) \div 4, w \div 4),
                          center_y |-> h \div 2 + RandInt(th.start, 2, (-h) \div 4, h \div 4)]
            /\ th.value = <<UnevenResult(th.image, "spotlight", 50, th.start).img>>

RECURSIVE FilesUpTo(_, _)
(* the files of the first n countries, in the order of the listing *)
FilesUpTo(dirs, n) ==
    IF n = 0 THEN <<>>
    ELSE FilesUpTo(dirs, n - 1) \o [j \in 1..Len(dirs[n]) |-> <<n, j>>]

(* the files that are read and whose processing raises nothing *)
Processable ==
    LET all == FilesUpTo(batch.dirs, Len(batch.dirs))
    IN {i \in 1..Len(all) :
            /\ batch.dirs[all[i][1]][all[i][2]] = "good"
            /\ script = "create_lighting_effects" => batch.effect_type \in KnownEffects}

BatchInOrder ==
    LET all == FilesUpTo(batch.dirs, Len(batch.dirs))
    IN /\ Len(batch.attempted) <= Len(all)
       /\ batch.attempted = SubSeq(all, 1, Len(batch.attempted))
       /\ batch.pc # "start" =>
              /\ 0 <= batch.processed_images
              /\ batch.processed_images <= batch.total_images
              /\ batch.total_images = Len(all)
       /\ batch.pc = "done" =>
              /\ batch.attempted = all
              /\ batch.processed_images = Cardinality(Processable)

(* a glare call of the batch, on an image that was read: it returns an     *)
(* image and has taken three draws                                         *)
BatchGlareReturns ==
    (/\ call.op = "apply_lighting_effects"
     /\ call.args.effect_type = "glare"
     /\ call.args.num_glares = 1
     /\ call.image.width > 0
     /\ call.image.height > 0)
    => \A nanv \in NanCast :
           LET r == ApplyResult(call.image, call.args, call.rng, nanv)
           IN /\ r.status = "returned"
              /\ r.kind # "None"
              /\ r.used = DrawsOf("add_glare_effect")

(* C17: a file that cannot be read, or whose processing raises, does not   *)
(* stop the batch: the files of every country are attempted once each in   *)
(* the order of the listing, the loop ends, and it ends with               *)
(* processed_images equal to the number of files read and processed        *)
(* without an exception, between 0 and total_images.                       *)
C17_BatchContinues == [](BatchInOrder) /\ <>(batch.pc = "done")

(* a batch that ended after a file raised and a file could not be read,    *)
(* with the files after them processed                                     *)
C17_Witness ==
    /\ batch.pc = "done"
    /\ batch.dirs = <<<<"raises", "good">>, <<"unreadable", "good">>>>
    /\ batch.processed_images = 2
    /\ Len(batch.attempted) = 4

====
